---- MODULE Spec2Model ----
(***************************************************************************)
(* autosklearn.metrics: the Scorer wrappers (_PredictScorer, _ProbaScorer, *)
(* _ThresholdScorer), make_scorer, the metric registries and the batch     *)
(* evaluator (calculate_score, calculate_loss, calculate_metric,           *)
(* _compute_scorer).                                                       *)
(*                                                                         *)
(* Numbers.  Array elements are fixed-point with 4 units per 1.0, so 0.25, *)
(* 0.5 and 0.75 are 1, 2 and 3 and an element is integral iff it is a      *)
(* multiple of One.  Scores are fixed-point with ScoreOne units per 1.0.   *)
(* Arrays are records [ndim, data]: data is the sequence of rows, a row is *)
(* a sequence of elements; a 1-D array has ndim = 1 and rows of length 1.  *)
(***************************************************************************)
EXTENDS Integers, Sequences, FiniteSets, TLC

\* 1.0 and 0.5 as array elements (the literals of lines 90-91).
One == 4
Half == 2
\* float('inf') as an array element.
Inf == 1000
\* 1.0 as a score (the default optimum of make_scorer).
ScoreOne == 120
\* smac.utils.constants.MAXINT, the worst_possible_result of the loss scorers.
MAXINT == 2147483647

\* Longest scoring_functions list the callers of the model pass.
MaxSF == 2

------------------------------------------------------------------------------
\* numpy helpers

RECURSIVE SumSeq(_)
SumSeq(s) == IF s = <<>> THEN 0 ELSE Head(s) + SumSeq(Tail(s))

Abs(x) == IF x < 0 THEN -x ELSE x

Array1(s) == [ndim |-> 1, data |-> [i \in 1..Len(s) |-> <<s[i]>>]]
Array2(rows) == [ndim |-> 2, data |-> rows]

NRows(a) == Len(a.data)
NCols(a) == Len(a.data[1])
Elems(a) == {a.data[i][j] : i \in 1..NRows(a), j \in 1..NCols(a)}
IsFinite(a) == Inf \notin Elems(a)
IsIntegral(a) == \A v \in Elems(a) : v % One = 0
\* column j of a 2-D array, as a 1-D array (y_pred[:, j])
Column(a, j) == [ndim |-> 1, data |-> [i \in 1..NRows(a) |-> <<a.data[i][j]>>]]

\* rounding with a tie going up instead of to the even integer
Around_HalfUp(v) ==
    LET k == v \div One
        r == v % One
    IN  IF r < Half THEN k * One ELSE (k + 1) * One

\* np.around(x, decimals=0) on one element: to the nearest integer, a tie to
\* the even one.
Around(v) ==
    LET k == v \div One
        r == v % One
    IN  IF r < Half THEN k * One
        ELSE IF r > Half THEN (k + 1) * One
        ELSE IF k % 2 = 0 THEN k * One ELSE (k + 1) * One

AroundArray(a) ==
    [a EXCEPT !.data = [i \in 1..NRows(a) |->
                           [j \in 1..NCols(a) |-> Around(a.data[i][j])]]]

\* np.argmax of one row: the first index (from 0) of the largest element.
ArgMaxRow(row) ==
    CHOOSE j \in 1..Len(row) :
        /\ \A k \in 1..Len(row) : row[k] <= row[j]
        /\ \A k \in 1..(j - 1) : row[k] < row[j]

\* np.argmax(y_pred, axis=1): a new 1-D array of class indices.
ArgMax(a) == Array1([i \in 1..NRows(a) |-> (ArgMaxRow(a.data[i]) - 1) * One])

\* y_pred[y_pred > 0.5] = 1.0; y_pred[y_pred <= 0.5] = 0.0
Binarize(a) ==
    [a EXCEPT !.data = [i \in 1..NRows(a) |->
                           [j \in 1..NCols(a) |->
                               IF a.data[i][j] > Half THEN One ELSE 0]]]

\* sklearn.utils.multiclass.type_of_target.  "nonfinite" stands for the
\* ValueError it raises on a float array holding infinity.
type_of_target(y) ==
    IF ~IsFinite(y) THEN "nonfinite"
    ELSE IF y.ndim = 2 /\ NCols(y) > 1
         THEN IF ~IsIntegral(y) THEN "continuous-multioutput"
              ELSE IF Cardinality(Elems(y)) < 3 THEN "multilabel-indicator"
              ELSE "multiclass-multioutput"
         ELSE IF ~IsIntegral(y) THEN "continuous"
              ELSE IF Cardinality(Elems(y)) > 2 THEN "multiclass"
              ELSE "binary"

\* autosklearn.metrics.util.sanitize_array: a non-finite element is replaced
\* by a finite one (+inf by the largest finite element); the shape is kept.
sanitize_array(a) ==
    LET fin == Elems(a) \ {Inf}
        maxi == CHOOSE m \in fin : \A v \in fin : v <= m
    IN  IF IsFinite(a) THEN a
        ELSE [a EXCEPT !.data = [i \in 1..NRows(a) |->
                                    [j \in 1..NCols(a) |->
                                        IF a.data[i][j] = Inf THEN maxi
                                        ELSE a.data[i][j]]]]

------------------------------------------------------------------------------
\* The wrapped metric functions (sklearn.metrics), by their documented
\* contract: the checks each makes on its arguments, in order, with the error
\* it raises, and a value.  A result is [exc, msg, value]; exc is "none" for a
\* return.  sample_weight None is <<>>, labels None is <<>>.  tt and tp are
\* type_of_target of y_true and of y_pred.

Return(v) == [exc |-> "none", msg |-> "", value |-> v]
Raise(e, m) == [exc |-> e, msg |-> m, value |-> 0]
\* the ValueError with message msg, or the value when msg is ""
Checked(msg, v) == IF msg = "" THEN Return(v) ELSE Raise("ValueError", msg)

Weight(sw, i) == IF sw = <<>> THEN 1 ELSE sw[i]
SumWeights(sw, n) == SumSeq([i \in 1..n |-> Weight(sw, i)])

NonFiniteMsg == "Input contains NaN, infinity or a value too large for dtype('float64')."
LengthMsg == "Found input variables with inconsistent numbers of samples"

\* the y_type of sklearn's _check_targets
TargetsType(tt, tp) ==
    IF {tt, tp} = {"binary", "multiclass"} THEN "multiclass" ELSE tt

\* sklearn.metrics._classification._check_targets: "" when the pair is
\* accepted, else the message of its ValueError.
CheckTargets(tt, tp, y_true, y_pred) ==
    IF NRows(y_true) # NRows(y_pred) THEN LengthMsg
    ELSE IF tp = "nonfinite" THEN NonFiniteMsg
    ELSE IF tt # tp /\ {tt, tp} # {"binary", "multiclass"}
    THEN "Classification metrics can't handle a mix of " \o tt \o " and "
             \o tp \o " targets"
    ELSE IF TargetsType(tt, tp) \notin {"binary", "multiclass", "multilabel-indicator"}
    THEN TargetsType(tt, tp) \o " is not supported"
    ELSE IF tt = "multilabel-indicator" /\ NCols(y_true) # NCols(y_pred)
    THEN "operands could not be broadcast together"
    ELSE ""

\* sklearn.metrics.accuracy_score: the weighted share of rows predicted exactly.
AccuracyValue(y_true, y_pred, sw) ==
    (ScoreOne * SumSeq([i \in 1..NRows(y_true) |->
                 IF y_true.data[i] = y_pred.data[i] THEN Weight(sw, i) ELSE 0]))
        \div SumWeights(sw, NRows(y_true))

sk_accuracy_score(tt, tp, y_true, y_pred, sw) ==
    Checked(CheckTargets(tt, tp, y_true, y_pred), AccuracyValue(y_true, y_pred, sw))

\* sklearn.metrics.f1_score with its defaults average='binary', pos_label=1.
F1Error(targets, tt, tp, y_true, y_pred) ==
    IF targets # "" THEN targets
    ELSE IF TargetsType(tt, tp) # "binary"
    THEN "Target is " \o TargetsType(tt, tp)
         \o " but average='binary'. Please choose another average "
         \o "setting, one of [None, 'micro', 'macro', 'weighted']."
    ELSE IF One \notin (Elems(y_true) \cup Elems(y_pred))
            /\ Cardinality(Elems(y_true) \cup Elems(y_pred)) >= 2
    THEN "pos_label=1 is not a valid label"
    ELSE ""

\* the weight of the rows with y_true = 1 iff t and y_pred = 1 iff p
Confusion(y_true, y_pred, sw, t, p) ==
    SumSeq([i \in 1..NRows(y_true) |->
        IF (y_true.data[i][1] = One) = t /\ (y_pred.data[i][1] = One) = p
        THEN Weight(sw, i) ELSE 0])

F1Ratio(tp2, fp, fn) ==
    IF tp2 + fp + fn = 0 THEN 0 ELSE (ScoreOne * tp2) \div (tp2 + fp + fn)

sk_f1_score(tt, tp, y_true, y_pred, sw) ==
    Checked(F1Error(CheckTargets(tt, tp, y_true, y_pred), tt, tp, y_true, y_pred),
            F1Ratio(2 * Confusion(y_true, y_pred, sw, TRUE, TRUE),
                    Confusion(y_true, y_pred, sw, FALSE, TRUE),
                    Confusion(y_true, y_pred, sw, TRUE, FALSE)))

\* partial(sklearn.metrics.precision_score, pos_label=None, average='samples'):
\* the weighted mean over the rows of each row's precision.
SamplesError(targets, tt, tp) ==
    IF targets # "" THEN targets
    ELSE IF TargetsType(tt, tp) # "multilabel-indicator"
    THEN "Samplewise metrics are not available outside of "
         \o "multilabel classification."
    ELSE ""

RowPrecision(t, p) ==
    LET pp == Cardinality({j \in 1..Len(p) : p[j] = One})
    IN  IF pp = 0 THEN 0
        ELSE (ScoreOne * Cardinality({j \in 1..Len(p) : t[j] = One /\ p[j] = One}))
                 \div pp

sk_precision_score_samples(tt, tp, y_true, y_pred, sw) ==
    Checked(SamplesError(CheckTargets(tt, tp, y_true, y_pred), tt, tp),
            SumSeq([i \in 1..NRows(y_true) |->
                Weight(sw, i) * RowPrecision(y_true.data[i], y_pred.data[i])])
                \div SumWeights(sw, NRows(y_true)))

\* sklearn.metrics.mean_squared_log_error.  The value stands in for the mean
\* of (log1p(t) - log1p(p))^2, which has no fixed-point form: the mean of
\* |t - p|, like it non-negative and 0 exactly when the arrays agree.
MsleError(y_true, y_pred) ==
    IF NRows(y_true) # NRows(y_pred) THEN LengthMsg
    ELSE IF ~IsFinite(y_pred) THEN NonFiniteMsg
    ELSE IF NCols(y_true) # NCols(y_pred)
    THEN "y_true and y_pred have different number of output"
    ELSE IF (\E v \in Elems(y_true) : v < 0) \/ (\E v \in Elems(y_pred) : v < 0)
    THEN "Mean Squared Logarithmic Error cannot be used when "
         \o "targets contain negative values."
    ELSE ""

sk_mean_squared_log_error(y_true, y_pred, sw) ==
    Checked(MsleError(y_true, y_pred),
            (ScoreOne * SumSeq([i \in 1..NRows(y_true) |->
                Weight(sw, i) * SumSeq([j \in 1..NCols(y_true) |->
                    Abs(y_true.data[i][j] - y_pred.data[i][j])])]))
                \div (One * NCols(y_true) * SumWeights(sw, NRows(y_true))))

\* sklearn.metrics.roc_auc_score (average='macro' over the label columns).
\* PairSum adds term(a, b) over the pairs of a positive sample a and a
\* negative sample b of label column j, weighted; pos is the positive label.
MaxOf(S) == CHOOSE c \in S : \A d \in S : d <= c

PairSum(y_true, y_score, j, sw, pos, counting) ==
    SumSeq([a \in 1..NRows(y_true) |-> SumSeq([b \in 1..NRows(y_true) |->
        IF y_true.data[a][j] # pos \/ y_true.data[b][j] = pos THEN 0
        ELSE Weight(sw, a) * Weight(sw, b) *
             (IF ~counting THEN 1
              ELSE IF y_score.data[a][j] > y_score.data[b][j] THEN 2
              ELSE IF y_score.data[a][j] = y_score.data[b][j] THEN 1
              ELSE 0)])])

\* the area under the ROC curve of column j
Auc(y_true, y_score, j, sw, pos) ==
    (ScoreOne * PairSum(y_true, y_score, j, sw, pos, TRUE))
        \div (2 * PairSum(y_true, y_score, j, sw, pos, FALSE))

RocAucError(y_true, y_score) ==
    IF NRows(y_true) # NRows(y_score) THEN LengthMsg
    ELSE IF ~IsFinite(y_score) THEN NonFiniteMsg
    ELSE IF NCols(y_true) # NCols(y_score) THEN "bad input shape"
    ELSE IF \E j \in 1..NCols(y_true) : Cardinality(Elems(Column(y_true, j))) # 2
    THEN "Only one class present in y_true. ROC AUC score is not "
         \o "defined in that case."
    ELSE ""

sk_roc_auc_score(y_true, y_score, sw) ==
    Checked(RocAucError(y_true, y_score),
            SumSeq([j \in 1..NCols(y_true) |->
                Auc(y_true, y_score, j, sw, MaxOf(Elems(Column(y_true, j))))])
                \div NCols(y_true))

\* sklearn.metrics.log_loss.  Its LabelBinarizer takes the classes from labels
\* when given, else from y_true; a 1-column y_pred p becomes [1 - p, p].  The
\* value stands in for the mean of -log(p of the true class): the mean of
\* |1 - p|, like it non-negative and 0 exactly when p = 1.
LogLossClasses(tt, y_true, labels) ==
    IF labels # <<>> THEN {labels[i] : i \in 1..Len(labels)}
    ELSE IF tt = "multilabel-indicator"
    THEN {(j - 1) * One : j \in 1..NCols(y_true)}
    ELSE Elems(y_true)

LogLossError(tt, y_true, y_pred, labels, classes) ==
    IF ~IsFinite(y_pred) THEN NonFiniteMsg
    ELSE IF NRows(y_true) # NRows(y_pred) THEN LengthMsg
    ELSE IF tt \in {"continuous-multioutput", "multiclass-multioutput"}
    THEN "Multioutput target data is not supported with label binarization"
    ELSE IF labels = <<>> /\ tt = "continuous" THEN "Unknown label type"
    ELSE IF Cardinality(classes) = 1 THEN "y_true contains only one label"
    ELSE IF labels # <<>> /\ tt = "multilabel-indicator"
    THEN "The object was not fitted with multilabel input."
    ELSE IF Cardinality(classes) # (IF NCols(y_pred) = 1 THEN 2 ELSE NCols(y_pred))
    THEN "y_true and y_pred contain different number of classes"
    ELSE ""

\* the probability row p gives class number c (from 1)
Prob(p, c) == IF Len(p) = 1 THEN (IF c = 2 THEN p[1] ELSE One - p[1]) ELSE p[c]

RowLoss(tt, t, p, classes) ==
    IF tt = "multilabel-indicator"
    THEN SumSeq([j \in 1..Len(t) |->
             IF t[j] = One THEN Abs(One - Prob(p, j)) ELSE 0])
    ELSE IF t[1] \notin classes THEN 0
    ELSE Abs(One - Prob(p, Cardinality({c \in classes : c < t[1]}) + 1))

LogLossValue(tt, y_true, y_pred, sw, classes) ==
    (ScoreOne * SumSeq([i \in 1..NRows(y_true) |->
        Weight(sw, i) * RowLoss(tt, y_true.data[i], y_pred.data[i], classes)]))
        \div (One * SumWeights(sw, NRows(y_true)))

LogLossWith(tt, y_true, y_pred, sw, labels, classes) ==
    Checked(LogLossError(tt, y_true, y_pred, labels, classes),
            LogLossValue(tt, y_true, y_pred, sw, classes))

sk_log_loss(tt, y_true, y_pred, sw, labels) ==
    LogLossWith(tt, y_true, y_pred, sw, labels, LogLossClasses(tt, y_true, labels))

\* the call of a wrapped function, by its name
Apply(func, tt, tp, y_true, y_pred, sw, labels) ==
    CASE func = "accuracy_score" -> sk_accuracy_score(tt, tp, y_true, y_pred, sw)
      [] func = "f1_score" -> sk_f1_score(tt, tp, y_true, y_pred, sw)
      [] func = "precision_score_samples" ->
             sk_precision_score_samples(tt, tp, y_true, y_pred, sw)
      [] func = "mean_squared_log_error" ->
             sk_mean_squared_log_error(y_true, y_pred, sw)
      [] func = "roc_auc_score" -> sk_roc_auc_score(y_true, y_pred, sw)
      [] func = "log_loss" -> sk_log_loss(tt, y_true, y_pred, sw, labels)

\* self._score_func(y_true, y_pred, [sample_weight=...], [labels=...], **kwargs)
score_func(func, y_true, y_pred, sw, labels, kwargs) ==
    Apply(func, type_of_target(y_true), type_of_target(y_pred), y_true, y_pred,
          sw, labels)
------------------------------------------------------------------------------
\* Scorer and its three variants.  A call of a scorer gives
\*   [exc, msg, value]  the float returned, or the exception raised;
\*   y_pred             the caller's prediction array as the call leaves it;
\*   calls              the invocations of the wrapped function, each with the
\*                      arguments it was given.

Scorer(variant, name, func, optimum, worst_possible_result, sign, kwargs) ==
    [variant |-> variant, name |-> name, score_func |-> func,
     optimum |-> optimum, worst_possible_result |-> worst_possible_result,
     sign |-> sign, kwargs |-> kwargs]

Invocation(self, y_true, y_pred, sw, labels) ==
    [func |-> self.score_func, y_true |-> y_true, y_pred |-> y_pred,
     sample_weight |-> sw, labels |-> labels, kwargs |-> self.kwargs]

\* what a variant does to y_pred before the wrapped function: the exception it
\* raises itself, or the array it passes on, and the caller's array afterwards
Passes(passed, after) ==
    [exc |-> "none", msg |-> "", passed |-> passed, after |-> after]
Fails(e, m, after) == [exc |-> e, msg |-> m, passed |-> after, after |-> after]

\* Signed without the multiplication by self._sign
Signed_NoSign(self, r, invocation, after) ==
    [exc |-> r.exc, msg |-> r.msg, value |-> r.value,
     y_pred |-> after, calls |-> <<invocation>>]

\* self._sign * (what the wrapped function returned)
Signed(self, r, invocation, after) ==
    [exc |-> r.exc, msg |-> r.msg,
     value |-> IF r.exc = "none" THEN self.sign * r.value ELSE 0,
     y_pred |-> after, calls |-> <<invocation>>]

\* return self._sign * self._score_func(y_true, y_pred, ...)
SignedScore(self, y_true, norm, sw, labels) ==
    IF norm.exc # "none"
    THEN [exc |-> norm.exc, msg |-> norm.msg, value |-> 0,
          y_pred |-> norm.after, calls |-> <<>>]
    ELSE Signed(self,
                score_func(self.score_func, y_true, norm.passed, sw, labels,
                           self.kwargs),
                Invocation(self, y_true, norm.passed, sw, labels), norm.after)

\* PredictNormalize with the arg-max branch tested before the unchanged one
PredictNormalize_ArgMaxFirst(type_true, type_pred, y_pred) ==
    IF type_true = "nonfinite" THEN Fails("ValueError", NonFiniteMsg, y_pred)
    ELSE IF type_true = "binary" /\ type_pred = "nonfinite"
    THEN Fails("ValueError", NonFiniteMsg, y_pred)
    ELSE IF type_true = "binary" /\ type_pred = "continuous" /\ y_pred.ndim = 1
    THEN Passes(AroundArray(y_pred), y_pred)
    ELSE IF type_true \in {"binary", "multiclass"}
    THEN Passes(ArgMax(y_pred), y_pred)
    ELSE IF y_pred.ndim = 1 \/ NCols(y_pred) = 1 \/ type_true = "continuous"
    THEN Passes(y_pred, y_pred)
    ELSE IF type_true = "multilabel-indicator"
    THEN Passes(Binarize(y_pred), Binarize(y_pred))
    ELSE IF type_true = "continuous-multioutput"
    THEN Passes(y_pred, y_pred)
    ELSE Fails("ValueError", type_true, y_pred)

\* _PredictScorer.__call__, lines 75-95; type_of_target(y_pred) is evaluated
\* only when type_true is 'binary'
PredictNormalize(type_true, type_pred, y_pred) ==
    IF type_true = "nonfinite" THEN Fails("ValueError", NonFiniteMsg, y_pred)
    ELSE IF type_true = "binary" /\ type_pred = "nonfinite"
    THEN Fails("ValueError", NonFiniteMsg, y_pred)
    ELSE IF type_true = "binary" /\ type_pred = "continuous" /\ y_pred.ndim = 1
    THEN Passes(AroundArray(y_pred), y_pred)
    ELSE IF y_pred.ndim = 1 \/ NCols(y_pred) = 1 \/ type_true = "continuous"
    THEN Passes(y_pred, y_pred)
    ELSE IF type_true \in {"binary", "multiclass"}
    THEN Passes(ArgMax(y_pred), y_pred)
    ELSE IF type_true = "multilabel-indicator"
    THEN \* the two assignments write into the caller's array
         Passes(Binarize(y_pred), Binarize(y_pred))
    ELSE IF type_true = "continuous-multioutput"
    THEN Passes(y_pred, y_pred)
    ELSE Fails("ValueError", type_true, y_pred)

\* _PredictScorer.__call__
PredictCall(self, y_true, y_pred, sw) ==
    SignedScore(self, y_true,
                PredictNormalize(type_of_target(y_true), type_of_target(y_pred),
                                 y_pred),
                sw, <<>>)

\* ProbaLabels without the test of self._score_func at line 132
ProbaLabels_AnyFunction(self, y_true, y_pred) ==
    LET n_labels_pred == NCols(y_pred)
        n_labels_test == Cardinality(Elems(y_true))
    IN  IF n_labels_pred # n_labels_test
        THEN [i \in 1..n_labels_pred |-> (i - 1) * One]
        ELSE <<>>

\* _ProbaScorer.__call__, lines 132-136: the labels keyword, <<>> when absent
ProbaLabels(self, y_true, y_pred) ==
    LET n_labels_pred == NCols(y_pred)
        n_labels_test == Cardinality(Elems(y_true))
    IN  IF self.score_func = "log_loss" /\ n_labels_pred # n_labels_test
        THEN [i \in 1..n_labels_pred |-> (i - 1) * One]
        ELSE <<>>

\* _ProbaScorer.__call__
ProbaCall(self, y_true, y_pred, sw) ==
    SignedScore(self, y_true, Passes(y_pred, y_pred), sw,
                ProbaLabels(self, y_true, y_pred))

\* ThresholdNormalize without the test of y_type at lines 181-182
ThresholdNormalize_Unchecked(y_type, y_pred) ==
    IF y_type = "nonfinite" THEN Fails("ValueError", NonFiniteMsg, y_pred)
    ELSE IF y_type = "binary" /\ y_pred.ndim > 1
    THEN IF NCols(y_pred) < 2
         THEN Fails("IndexError",
                    "index 1 is out of bounds for axis 1 with size 1", y_pred)
         ELSE Passes(Column(y_pred, 2), y_pred)
    ELSE Passes(y_pred, y_pred)

\* _ThresholdScorer.__call__, lines 180-188 (y_pred an ndarray; the
\* list-of-arrays form of a multilabel decision function is not among the
\* model's inputs)
ThresholdNormalize(y_type, y_pred) ==
    IF y_type = "nonfinite" THEN Fails("ValueError", NonFiniteMsg, y_pred)
    ELSE IF y_type \notin {"binary", "multilabel-indicator"}
    THEN Fails("ValueError", y_type \o " format is not supported", y_pred)
    ELSE IF y_type = "binary" /\ y_pred.ndim > 1
    THEN IF NCols(y_pred) < 2
         THEN Fails("IndexError",
                    "index 1 is out of bounds for axis 1 with size 1", y_pred)
         ELSE Passes(Column(y_pred, 2), y_pred)
    ELSE Passes(y_pred, y_pred)

\* _ThresholdScorer.__call__
ThresholdCall(self, y_true, y_pred, sw) ==
    SignedScore(self, y_true, ThresholdNormalize(type_of_target(y_true), y_pred),
                sw, <<>>)

\* metric(y_true, y_pred, sample_weight): dispatch on the scorer's class
Call(self, y_true, y_pred, sw) ==
    CASE self.variant = "Predict" -> PredictCall(self, y_true, y_pred, sw)
      [] self.variant = "Proba" -> ProbaCall(self, y_true, y_pred, sw)
      [] self.variant = "Threshold" -> ThresholdCall(self, y_true, y_pred, sw)

\* make_scorer testing needs_threshold before needs_proba
make_scorer_ThresholdFirst(name, func, optimum, worst_possible_result, greater_is_better, needs_proba, needs_threshold, kwargs) ==
    LET sign == IF greater_is_better THEN 1 ELSE -1
    IN  IF needs_threshold
        THEN Scorer("Threshold", name, func, optimum, worst_possible_result, sign, kwargs)
        ELSE IF needs_proba
        THEN Scorer("Proba", name, func, optimum, worst_possible_result, sign, kwargs)
        ELSE Scorer("Predict", name, func, optimum, worst_possible_result, sign, kwargs)

\* make_scorer; kwargs is the dict of the extra keyword arguments
make_scorer(name, func, optimum, worst_possible_result, greater_is_better, needs_proba, needs_threshold, kwargs) ==
    LET sign == IF greater_is_better THEN 1 ELSE -1
    IN  IF needs_proba
        THEN Scorer("Proba", name, func, optimum, worst_possible_result, sign, kwargs)
        ELSE IF needs_threshold
        THEN Scorer("Threshold", name, func, optimum, worst_possible_result, sign, kwargs)
        ELSE Scorer("Predict", name, func, optimum, worst_possible_result, sign, kwargs)

\* the module-level scorers the model evaluates
mean_squared_log_error ==
    make_scorer("mean_squared_log_error", "mean_squared_log_error",
                0, MAXINT, FALSE, FALSE, FALSE, <<>>)
accuracy ==
    make_scorer("accuracy", "accuracy_score", ScoreOne, 0, TRUE, FALSE, FALSE, <<>>)
f1 ==
    make_scorer("f1", "f1_score", ScoreOne, 0, TRUE, FALSE, FALSE, <<>>)
roc_auc ==
    make_scorer("roc_auc", "roc_auc_score", ScoreOne, 0, TRUE, FALSE, TRUE, <<>>)
log_loss ==
    make_scorer("log_loss", "log_loss", 0, MAXINT, FALSE, TRUE, FALSE, <<>>)
precision_samples ==
    make_scorer("precision_samples", "precision_score_samples",
                ScoreOne, 0, TRUE, FALSE, FALSE, <<>>)

\* the module-level scorers the model does not evaluate: their attributes only
mean_absolute_error ==
    make_scorer("mean_absolute_error", "mean_absolute_error",
                0, MAXINT, FALSE, FALSE, FALSE, <<>>)
mean_squared_error ==
    make_scorer("mean_squared_error", "mean_squared_error",
                0, MAXINT, FALSE, FALSE, FALSE, <<<<"squared", "True">>>>)
root_mean_squared_error ==
    make_scorer("root_mean_squared_error", "mean_squared_error",
                0, MAXINT, FALSE, FALSE, FALSE, <<<<"squared", "False">>>>)
median_absolute_error ==
    make_scorer("median_absolute_error", "median_absolute_error",
                0, MAXINT, FALSE, FALSE, FALSE, <<>>)
r2 ==
    make_scorer("r2", "r2_score", ScoreOne, 0, TRUE, FALSE, FALSE, <<>>)
balanced_accuracy ==
    make_scorer("balanced_accuracy", "balanced_accuracy_score",
                ScoreOne, 0, TRUE, FALSE, FALSE, <<>>)
average_precision ==
    make_scorer("average_precision", "average_precision_score",
                ScoreOne, 0, TRUE, FALSE, TRUE, <<>>)
precision ==
    make_scorer("precision", "precision_score", ScoreOne, 0, TRUE, FALSE, FALSE, <<>>)
recall ==
    make_scorer("recall", "recall_score", ScoreOne, 0, TRUE, FALSE, FALSE, <<>>)

\* lines 331-337: make_scorer(qualified_name, partial(metric, pos_label=None,
\* average=average)), the partial named <metric>_score_<average>
Averaged(name, average) ==
    make_scorer(name \o "_" \o average, name \o "_score_" \o average,
                ScoreOne, 0, TRUE, FALSE, FALSE, <<>>)

Averages == {"macro", "micro", "samples", "weighted"}

\* registry[scorer.name] = scorer, for each scorer of a list
Registry(scorers) ==
    [n \in {m.name : m \in scorers} |-> CHOOSE m \in scorers : m.name = n]

REGRESSION_METRICS ==
    Registry({mean_absolute_error, mean_squared_error, root_mean_squared_error,
              mean_squared_log_error, median_absolute_error, r2})

CLASSIFICATION_METRICS ==
    Registry({accuracy, balanced_accuracy, roc_auc, average_precision, log_loss,
              precision, recall, f1}
             \cup {Averaged(name, average) :
                      name \in {"precision", "recall", "f1"}, average \in Averages})

------------------------------------------------------------------------------
\* autosklearn.constants
BINARY_CLASSIFICATION == 1
MULTICLASS_CLASSIFICATION == 2
MULTILABEL_CLASSIFICATION == 3
REGRESSION == 4
MULTIOUTPUT_REGRESSION == 5
REGRESSION_TASKS == {REGRESSION, MULTIOUTPUT_REGRESSION}
TASK_TYPES ==
    REGRESSION_TASKS \cup
    {BINARY_CLASSIFICATION, MULTICLASS_CLASSIFICATION, MULTILABEL_CLASSIFICATION}

default_metric_for_task ==
    [t \in TASK_TYPES |->
        IF t \in {BINARY_CLASSIFICATION, MULTICLASS_CLASSIFICATION}
        THEN CLASSIFICATION_METRICS["accuracy"]
        ELSE IF t = MULTILABEL_CLASSIFICATION
        THEN CLASSIFICATION_METRICS["f1_macro"]
        ELSE REGRESSION_METRICS["r2"]]
------------------------------------------------------------------------------
\* The batch evaluator.  A call of it gives
\*   kind         "scalar", "dict" or "raise";
\*   exc, msg     the exception raised;
\*   value, dict  the float or the dict returned;
\*   prediction   the caller's prediction array as the call leaves it;
\*   trace        the evaluations made, in order, each with its outcome.

\* sanitize_array hands the scorer an array of its own, so a scorer's write
\* into it does not reach the caller's prediction
CallerKeeps(r, prediction, task_type) ==
    IF task_type \in REGRESSION_TASKS THEN [r EXCEPT !.y_pred = prediction] ELSE r

\* _compute_scorer sanitizing for every task type that is not a classification
_compute_scorer_SanitizeUnlessClassification(metric, prediction, solution, task_type) ==
    IF task_type \in TASK_TYPES \ REGRESSION_TASKS
    THEN Call(metric, solution, prediction, <<>>)
    ELSE [Call(metric, solution, sanitize_array(prediction), <<>>)
             EXCEPT !.y_pred = prediction]

\* _compute_scorer
_compute_scorer(metric, prediction, solution, task_type) ==
    CallerKeeps(Call(metric, solution,
                     IF task_type \in REGRESSION_TASKS
                     THEN sanitize_array(prediction) ELSE prediction,
                     <<>>),
                prediction, task_type)

\* the messages calculate_score compares e.args[0] with
MsgNegativeTargets ==
    "Mean Squared Logarithmic Error cannot be used when targets contain negative values."
MsgMulticlassFormat == "multiclass format is not supported"
MsgSamplewise ==
    "Samplewise metrics are not available outside of multilabel classification."
MsgAverageBinary ==
    "Target is multiclass but average='binary'. Please choose another average setting, one of [None, 'micro', 'macro', 'weighted']."

\* Suppressed with the regression loop re-raising every ValueError
Suppressed_NoRegression(task_type, r) ==
    /\ r.exc = "ValueError"
    /\ task_type \notin REGRESSION_TASKS
    /\ r.msg \in {MsgMulticlassFormat, MsgSamplewise, MsgAverageBinary}

\* Suppressed with every ValueError skipped
Suppressed_AnyValueError(task_type, r) == r.exc = "ValueError"

\* the except clauses of calculate_score: TRUE for `continue`, FALSE for `raise e`
Suppressed(task_type, r) ==
    /\ r.exc = "ValueError"
    /\ IF task_type \in REGRESSION_TASKS
       THEN r.msg = MsgNegativeTargets
       ELSE \/ r.msg = MsgMulticlassFormat
            \/ r.msg = MsgSamplewise
            \/ r.msg = MsgAverageBinary

EmptyDict == [n \in {} |-> 0]
DictSet(d, key, v) == [n \in DOMAIN d \cup {key} |-> IF n = key THEN v ELSE d[n]]

\* one evaluation, as the trace keeps it
Evaluation(metric, r) ==
    [metric |-> metric.name, exc |-> r.exc, msg |-> r.msg, value |-> r.value,
     calls |-> r.calls]

Raised(r, trace) ==
    [kind |-> "raise", exc |-> r.exc, msg |-> r.msg, value |-> 0,
     dict |-> EmptyDict, prediction |-> r.y_pred, trace |-> trace]

\* for metric_ in scoring_functions + [metric]: ScoreStep is the loop's body
\* once _compute_scorer has returned or raised r
RECURSIVE ScoreLoop(_, _, _, _, _, _)
RECURSIVE ScoreStep(_, _, _, _, _, _)
\* ScoreStep with `break` for `continue`
ScoreStep_Break(metrics, r, solution, task_type, score_dict, trace) ==
    IF r.exc = "none"
    THEN ScoreLoop(Tail(metrics), r.y_pred, solution, task_type,
                   DictSet(score_dict, Head(metrics).name, r.value),
                   Append(trace, Evaluation(Head(metrics), r)))
    ELSE IF Suppressed(task_type, r)
    THEN [kind |-> "dict", exc |-> "none", msg |-> "", value |-> 0,
          dict |-> score_dict, prediction |-> r.y_pred,
          trace |-> Append(trace, Evaluation(Head(metrics), r))]
    ELSE Raised(r, Append(trace, Evaluation(Head(metrics), r)))

ScoreStep(metrics, r, solution, task_type, score_dict, trace) ==
    IF r.exc = "none"
    THEN ScoreLoop(Tail(metrics), r.y_pred, solution, task_type,
                   DictSet(score_dict, Head(metrics).name, r.value),
                   Append(trace, Evaluation(Head(metrics), r)))
    ELSE IF Suppressed(task_type, r)
    THEN ScoreLoop(Tail(metrics), r.y_pred, solution, task_type, score_dict,
                   Append(trace, Evaluation(Head(metrics), r)))
    ELSE Raised(r, Append(trace, Evaluation(Head(metrics), r)))

ScoreLoop(metrics, prediction, solution, task_type, score_dict, trace) ==
    IF metrics = <<>>
    THEN [kind |-> "dict", exc |-> "none", msg |-> "", value |-> 0,
          dict |-> score_dict, prediction |-> prediction, trace |-> trace]
    ELSE ScoreStep(metrics,
                   _compute_scorer(Head(metrics), prediction, solution, task_type),
                   solution, task_type, score_dict, trace)

\* a single evaluation, as the functions that make just one return it
Single(metric, r) ==
    [kind |-> IF r.exc = "none" THEN "scalar" ELSE "raise",
     exc |-> r.exc, msg |-> r.msg, value |-> r.value, dict |-> EmptyDict,
     prediction |-> r.y_pred, trace |-> <<Evaluation(metric, r)>>]

\* calculate_score without the task_type check
calculate_score_Unchecked(solution, prediction, task_type, metric, scoring_functions) ==
    IF scoring_functions # <<>>
    THEN ScoreLoop(scoring_functions \o <<metric>>, prediction, solution,
                   task_type, EmptyDict, <<>>)
    ELSE Single(metric, _compute_scorer(metric, prediction, solution, task_type))

\* calculate_score taking the batch loop for an empty scoring_functions too
calculate_score_AlwaysBatch(solution, prediction, task_type, metric, scoring_functions) ==
    IF task_type \notin TASK_TYPES
    THEN [kind |-> "raise", exc |-> "NotImplementedError", msg |-> "task_type",
          value |-> 0, dict |-> EmptyDict, prediction |-> prediction,
          trace |-> <<>>]
    ELSE ScoreLoop(scoring_functions \o <<metric>>, prediction, solution,
                   task_type, EmptyDict, <<>>)

\* calculate_score; scoring_functions None and [] are both <<>> (the code only
\* tests its truth value)
calculate_score(solution, prediction, task_type, metric, scoring_functions) ==
    IF task_type \notin TASK_TYPES
    THEN [kind |-> "raise", exc |-> "NotImplementedError", msg |-> "task_type",
          value |-> 0, dict |-> EmptyDict, prediction |-> prediction,
          trace |-> <<>>]
    ELSE IF scoring_functions # <<>>
    THEN ScoreLoop(scoring_functions \o <<metric>>, prediction, solution,
                   task_type, EmptyDict, <<>>)
    ELSE Single(metric, _compute_scorer(metric, prediction, solution, task_type))

\* LossLoop with the subtraction the other way round
RECURSIVE LossLoop_ScoreMinusOptimum(_, _, _)
LossLoop_ScoreMinusOptimum(metrics, score, loss_dict) ==
    IF metrics = <<>> THEN loss_dict
    ELSE IF Head(metrics).name \notin DOMAIN score
    THEN LossLoop_ScoreMinusOptimum(Tail(metrics), score, loss_dict)
    ELSE LossLoop_ScoreMinusOptimum(Tail(metrics), score,
                  DictSet(loss_dict, Head(metrics).name,
                          score[Head(metrics).name] - Head(metrics).optimum))

\* for metric_ in scoring_functions + [metric]: loss_dict[...] = optimum - score
RECURSIVE LossLoop(_, _, _)
LossLoop(metrics, score, loss_dict) ==
    IF metrics = <<>> THEN loss_dict
    ELSE IF Head(metrics).name \notin DOMAIN score
    THEN LossLoop(Tail(metrics), score, loss_dict)
    ELSE LossLoop(Tail(metrics), score,
                  DictSet(loss_dict, Head(metrics).name,
                          Head(metrics).optimum - score[Head(metrics).name]))

\* calculate_loss, lines 457-473, on the score calculate_score gave
ScoreToLoss(score, metric, scoring_functions) ==
    IF score.kind = "raise" THEN score
    ELSE IF scoring_functions # <<>>
    THEN [score EXCEPT !.dict = LossLoop(scoring_functions \o <<metric>>,
                                         score.dict, EmptyDict)]
    ELSE [score EXCEPT !.value = metric.optimum - score.value]

\* calculate_loss
calculate_loss(solution, prediction, task_type, metric, scoring_functions) ==
    ScoreToLoss(calculate_score(solution, prediction, task_type, metric,
                                scoring_functions),
                metric, scoring_functions)

\* SignTimes without the multiplication
SignTimes_Dropped(metric, single) == single

\* return metric._sign * score
SignTimes(metric, single) ==
    IF single.kind = "raise" THEN single
    ELSE [single EXCEPT !.value = metric.sign * single.value]

\* calculate_metric
calculate_metric(metric, prediction, solution, task_type) ==
    SignTimes(metric,
              Single(metric, _compute_scorer(metric, prediction, solution, task_type)))
------------------------------------------------------------------------------
\* The callers' inputs.

\* ground truths, one of each target type (3 samples)
Solutions ==
    { Array1(<<0, One, One>>),                                \* binary
      Array1(<<-One, One, One>>),                             \* binary, a negative target
      Array1(<<0, One, 2 * One>>),                            \* multiclass
      Array1(<<Half, One, One + Half>>),                      \* continuous
      Array2(<<<<0, One>>, <<One, 0>>, <<One, One>>>>),       \* multilabel-indicator
      Array2(<<<<Half, One>>, <<One + Half, 0>>, <<One, One>>>>),  \* continuous-multioutput
      Array2(<<<<0, One>>, <<2 * One, 0>>, <<One, One>>>>) }  \* multiclass-multioutput

\* predictions: class labels, positive-class probabilities, probability
\* matrices, decision values (one above 1), and one holding an infinity
Predictions ==
    { Array1(<<0, One, One>>),
      Array1(<<1, 3, 3>>),
      Array1(<<3, Half, 1>>),
      Array1(<<1, 3, One + Half>>),
      Array1(<<Inf, One, 0>>),
      Array2(<<<<1>>, <<3>>, <<3>>>>),
      Array2(<<<<1, 3>>, <<3, 1>>, <<Half, Half>>>>),
      Array2(<<<<0, One>>, <<One, 0>>, <<One, One>>>>),
      Array2(<<<<Half, 1, 1>>, <<1, Half, 1>>, <<0, 1, 3>>>>) }

\* the registered scorers the callers of the model pass
Scorers ==
    {REGRESSION_METRICS[n] : n \in {"mean_squared_log_error"}}
        \cup {CLASSIFICATION_METRICS[n] :
                 n \in {"accuracy", "roc_auc", "log_loss", "f1", "precision_samples"}}

\* an identifier outside TASK_TYPES
UnknownTask == MULTIOUTPUT_REGRESSION + 1
TaskInputs == {BINARY_CLASSIFICATION, REGRESSION, UnknownTask}

\* sample_weight: None, or one weight per sample
SampleWeights == {<<>>, <<1, 1, 2>>}

\* a scorer of the caller's own: a probability scorer on another function
\* than log_loss
CustomScorers ==
    {make_scorer("custom_proba", "accuracy_score", ScoreOne, 0, TRUE, TRUE, FALSE, <<>>)}

\* the arguments of make_scorer: a name, a wrapped function, the optimum and
\* the worst result, and the extra keyword arguments as (key, value) pairs
NameInputs == {"accuracy", "custom_loss"}
FuncInputs == {"accuracy_score", "log_loss"}
OptimumInputs == {0, ScoreOne}
WorstInputs == {0, MAXINT}
KwargsInputs == {<<>>, <<<<"squared", "False">>>>}

------------------------------------------------------------------------------
\* The state machine: a caller holds a ground truth and a prediction array and
\* calls the module's functions on them, one call at a time.

VARIABLES
    solution,    \* the caller's y_true array
    prediction,  \* the caller's y_pred array, as the calls so far have left it
    call,        \* the call that has returned: its name and its arguments
    result,      \* what that call returned or raised, and what it evaluated
    registries   \* the module's registries and the scorer objects they hold

vars == <<solution, prediction, call, result, registries>>

\* the module after its import
Imported ==
    [REGRESSION_METRICS |-> REGRESSION_METRICS,
     CLASSIFICATION_METRICS |-> CLASSIFICATION_METRICS,
     default_metric_for_task |-> default_metric_for_task]

\* the scorers the callers take from the registries
Registered ==
    {registries.REGRESSION_METRICS[n] :
        n \in {m.name : m \in Scorers} \cap DOMAIN registries.REGRESSION_METRICS}
    \cup
    {registries.CLASSIFICATION_METRICS[n] :
        n \in {m.name : m \in Scorers} \cap DOMAIN registries.CLASSIFICATION_METRICS}

\* the lists of at most MaxSF scorers
SFLists == UNION {[1..n -> Registered] : n \in 0..MaxSF}

NoCall == [op |-> "none"]
NoResult == [kind |-> "none"]

Init ==
    /\ solution \in Solutions
    /\ prediction \in Predictions
    /\ call = NoCall
    /\ result = NoResult
    /\ registries = Imported

\* a call that rebinds the default metric of a task to the metric it was given
Returned_RebindsDefault(op, task_type, metric, scoring_functions, sw, r) ==
    /\ call' = [op |-> op, task_type |-> task_type, metric |-> metric,
                scoring_functions |-> scoring_functions, sample_weight |-> sw,
                prediction |-> prediction]
    /\ result' = [kind |-> r.kind, exc |-> r.exc, msg |-> r.msg,
                  value |-> r.value, dict |-> r.dict, trace |-> r.trace]
    /\ prediction' = r.prediction
    /\ registries' =
          [registries EXCEPT !.default_metric_for_task[BINARY_CLASSIFICATION] = metric]
    /\ UNCHANGED solution

\* the call op(...) returns or raises r; no function of the module assigns to
\* a registry or to an attribute of a scorer
Returned(op, task_type, metric, scoring_functions, sw, r) ==
    /\ call' = [op |-> op, task_type |-> task_type, metric |-> metric,
                scoring_functions |-> scoring_functions, sample_weight |-> sw,
                prediction |-> prediction]
    /\ result' = [kind |-> r.kind, exc |-> r.exc, msg |-> r.msg,
                  value |-> r.value, dict |-> r.dict, trace |-> r.trace]
    /\ prediction' = r.prediction
    /\ UNCHANGED <<solution, registries>>

CalculateScore ==
    /\ call = NoCall
    /\ \E task_type \in TaskInputs, metric \in Registered, scoring_functions \in SFLists :
          Returned("calculate_score", task_type, metric, scoring_functions, <<>>,
                   calculate_score(solution, prediction, task_type, metric,
                                   scoring_functions))

CalculateLoss ==
    /\ call = NoCall
    /\ \E task_type \in TaskInputs, metric \in Registered, scoring_functions \in SFLists :
          Returned("calculate_loss", task_type, metric, scoring_functions, <<>>,
                   calculate_loss(solution, prediction, task_type, metric,
                                  scoring_functions))

CalculateMetric ==
    /\ call = NoCall
    /\ \E task_type \in TaskInputs, metric \in Registered :
          Returned("calculate_metric", task_type, metric, <<>>, <<>>,
                   calculate_metric(metric, prediction, solution, task_type))

ComputeScorer ==
    /\ call = NoCall
    /\ \E task_type \in TaskInputs, metric \in Registered :
          Returned("_compute_scorer", task_type, metric, <<>>, <<>>,
                   Single(metric, _compute_scorer(metric, prediction, solution,
                                                  task_type)))

\* metric(y_true, y_pred, sample_weight), called directly
ScorerCall ==
    /\ call = NoCall
    /\ \E metric \in Registered \cup CustomScorers, sw \in SampleWeights :
          Returned("__call__", 0, metric, <<>>, sw,
                   Single(metric, Call(metric, solution, prediction, sw)))

\* make_scorer(name, score_func, optimum, worst_possible_result,
\*             greater_is_better, needs_proba, needs_threshold, **kwargs)
MakeScorer ==
    /\ call = NoCall
    /\ \E name \in NameInputs, func \in FuncInputs, optimum \in OptimumInputs,
          worst \in WorstInputs, kwargs \in KwargsInputs,
          greater_is_better \in BOOLEAN, needs_proba \in BOOLEAN,
          needs_threshold \in BOOLEAN :
          /\ call' = [op |-> "make_scorer", name |-> name, score_func |-> func,
                      optimum |-> optimum, worst_possible_result |-> worst,
                      greater_is_better |-> greater_is_better,
                      needs_proba |-> needs_proba,
                      needs_threshold |-> needs_threshold, kwargs |-> kwargs]
          /\ result' = [kind |-> "scorer",
                        scorer |-> make_scorer(name, func, optimum, worst,
                                               greater_is_better, needs_proba,
                                               needs_threshold, kwargs)]
    /\ UNCHANGED <<solution, prediction, registries>>

\* the caller takes the result and goes on with the same arrays
Continue ==
    /\ call # NoCall
    /\ call' = NoCall
    /\ result' = NoResult
    /\ UNCHANGED <<solution, prediction, registries>>

Next ==
    \/ CalculateScore
    \/ CalculateLoss
    \/ CalculateMetric
    \/ ComputeScorer
    \/ ScorerCall
    \/ MakeScorer
    \/ Continue

Spec == Init /\ [][Next]_vars
------------------------------------------------------------------------------
\* Properties.  After a call has returned, call holds its arguments (with the
\* prediction array as it was passed), result what it gave, and prediction the
\* caller's array as the call left it.

Metrics == call.scoring_functions \o <<call.metric>>
Batch == call.scoring_functions # <<>>
\* the scorer's outcome for list entry i on the prediction as it was passed
Alone(i) == _compute_scorer(Metrics[i], call.prediction, solution, call.task_type)
\* the registered scorer with a name
Named(name) == CHOOSE m \in Scorers : m.name = name
\* the evaluations of the trace that returned a score
Scored == {i \in 1..Len(result.trace) : result.trace[i].exc = "none"}
\* no later evaluation of the trace scored a metric of the same name (a list
\* may name a metric twice; the dict keeps the score set last)
LastOfItsName(i) ==
    \A j \in Scored : j > i => result.trace[j].metric # result.trace[i].metric

\* the value the wrapped function itself returned in evaluation e
RawOf(e) ==
    score_func(e.calls[1].func, e.calls[1].y_true, e.calls[1].y_pred,
               e.calls[1].sample_weight, e.calls[1].labels, e.calls[1].kwargs).value

\* C1: whenever calculate_score succeeds on the arguments of a calculate_loss
\* call, the loss is metric.optimum - score in the scalar form, and in the dict
\* form a dict with the same keys as the score dict whose value at each key is
\* the optimum of the scorer of that name minus the score at that key; a metric
\* left out of the score dict is left out of the loss dict.
LossOf(score) ==
    /\ result.kind = score.kind
    /\ score.kind = "scalar" => result.value = call.metric.optimum - score.value
    /\ score.kind = "dict" =>
          /\ DOMAIN result.dict = DOMAIN score.dict
          /\ \A k \in DOMAIN score.dict :
                result.dict[k] = Named(k).optimum - score.dict[k]

C1_LossIsOptimumMinusScore ==
    call.op = "calculate_loss" =>
        LossOf(calculate_score(solution, call.prediction, call.task_type,
                               call.metric, call.scoring_functions))

\* a loss dict with a suppressed metric left out and a loss that is not 0
C1_Witness ==
    /\ call.op = "calculate_loss"
    /\ result.kind = "dict"
    /\ \E i \in 1..Len(result.trace) : result.trace[i].exc = "ValueError"
    /\ \E k \in DOMAIN result.dict : result.dict[k] # 0 /\ Named(k).optimum # 0

\* C2: calculate_score with a task_type outside TASK_TYPES raises the
\* unknown-task-type error with no scorer and no wrapped function called,
\* with or without scoring_functions.
C2_UnknownTaskRaisesFirst ==
    (call.op = "calculate_score" /\ call.task_type \notin TASK_TYPES) =>
        /\ result.kind = "raise"
        /\ result.exc = "NotImplementedError"
        /\ result.trace = <<>>
        /\ prediction = call.prediction

\* an unknown task type with scoring_functions given, on arguments a known
\* task type would have scored
C2_Witness ==
    /\ call.op = "calculate_score"
    /\ call.task_type \notin TASK_TYPES
    /\ Batch
    /\ result.exc = "NotImplementedError"
    /\ calculate_score(solution, call.prediction, BINARY_CLASSIFICATION,
                       call.metric, call.scoring_functions).kind = "dict"

\* C3: in a regression batch where the only failures are ValueErrors with the
\* negative-target message, every metric of the list is evaluated in list
\* order, the failing ones have no key, and every other one has its key with
\* its score (the one set last, for a metric the list names twice).
NegativeTargets(r) == r.exc = "ValueError" /\ r.msg = MsgNegativeTargets

C3_RegressionSkipsNegativeTargets ==
    (/\ call.op = "calculate_score"
     /\ Batch
     /\ call.task_type \in REGRESSION_TASKS
     /\ \A i \in 1..Len(result.trace) :
           result.trace[i].exc = "none" \/ NegativeTargets(result.trace[i]))
    => /\ result.kind = "dict"
       /\ Len(result.trace) = Len(Metrics)
       /\ result.trace[1] = Evaluation(Metrics[1], Alone(1))
       /\ \A i \in 1..Len(Metrics) : result.trace[i].metric = Metrics[i].name
       /\ DOMAIN result.dict = {result.trace[i].metric : i \in Scored}
       /\ \A i \in Scored :
              LastOfItsName(i) =>
                  result.dict[result.trace[i].metric] = result.trace[i].value

\* the negative-target failure comes first and a later metric is scored
C3_Witness ==
    /\ call.op = "calculate_score"
    /\ Batch
    /\ call.task_type \in REGRESSION_TASKS
    /\ result.kind = "dict"
    /\ NegativeTargets(result.trace[1])
    /\ result.trace[1].metric \notin DOMAIN result.dict
    /\ DOMAIN result.dict # {}
\* C4: in a non-regression batch where the only failures are ValueErrors with
\* one of the three inapplicability messages, every metric of the list is
\* evaluated in list order, each on the caller's prediction array, the failing
\* ones have no key, and the dict holds the score of every other one (the one
\* set last, for a metric the list names twice).
Inapplicable(r) ==
    /\ r.exc = "ValueError"
    /\ r.msg \in {MsgMulticlassFormat, MsgSamplewise, MsgAverageBinary}

\* evaluation i of the trace is what Metrics[i] gives on the caller's array, as
\* it was passed or as the call left it
OnCallersArray(i) ==
    \E p \in {call.prediction, prediction} :
        result.trace[i] =
            Evaluation(Metrics[i],
                       _compute_scorer(Metrics[i], p, solution, call.task_type))

C4_ClassificationSkipsInapplicable ==
    (/\ call.op = "calculate_score"
     /\ Batch
     /\ call.task_type \in TASK_TYPES \ REGRESSION_TASKS
     /\ \A i \in 1..Len(result.trace) :
           result.trace[i].exc = "none" \/ Inapplicable(result.trace[i]))
    => /\ result.kind = "dict"
       /\ Len(result.trace) = Len(Metrics)
       /\ \A i \in 1..Len(Metrics) : OnCallersArray(i)
       /\ DOMAIN result.dict = {result.trace[i].metric : i \in Scored}
       /\ \A i \in Scored :
              LastOfItsName(i) =>
                  result.dict[result.trace[i].metric] = result.trace[i].value

\* an inapplicable metric comes first and a later metric is scored
C4_Witness ==
    /\ call.op = "calculate_score"
    /\ Batch
    /\ call.task_type \in TASK_TYPES \ REGRESSION_TASKS
    /\ result.kind = "dict"
    /\ Inapplicable(result.trace[1])
    /\ result.trace[1].metric \notin DOMAIN result.dict
    /\ DOMAIN result.dict # {}

\* C5: in a batch, the first evaluation that raises anything but a ValueError
\* with a message of the task family's own list ends the call with that
\* exception: no dict is returned and no later metric is evaluated.  The lists
\* are disjoint: the negative-target message is not skipped outside
\* regression, the three classification messages are not skipped in it.
FamilyMessages(task_type) ==
    IF task_type \in REGRESSION_TASKS THEN {MsgNegativeTargets}
    ELSE {MsgMulticlassFormat, MsgSamplewise, MsgAverageBinary}

Propagates(task_type, r) ==
    /\ r.exc # "none"
    /\ ~(r.exc = "ValueError" /\ r.msg \in FamilyMessages(task_type))

C5_OtherFailuresAbort ==
    (/\ call.op = "calculate_score"
     /\ Batch
     /\ call.task_type \in TASK_TYPES)
    => \A i \in 1..Len(result.trace) :
          Propagates(call.task_type, result.trace[i]) =>
              /\ result.kind = "raise"
              /\ result.exc = result.trace[i].exc
              /\ result.msg = result.trace[i].msg
              /\ result.dict = EmptyDict
              /\ Len(result.trace) = i

C5_FirstFailureAborts ==
    (/\ call.op = "calculate_score"
     /\ Batch
     /\ call.task_type \in TASK_TYPES
     /\ Propagates(call.task_type, Alone(1)))
    => /\ result.kind = "raise"
       /\ result.exc = Alone(1).exc
       /\ result.msg = Alone(1).msg
       /\ Len(result.trace) = 1

C5_ListsDisjoint ==
    FamilyMessages(REGRESSION) \cap FamilyMessages(BINARY_CLASSIFICATION) = {}

C5_UnlistedFailuresPropagate ==
    C5_OtherFailuresAbort /\ C5_FirstFailureAborts /\ C5_ListsDisjoint

\* a message of the other family's list aborts the batch after a metric was
\* scored and before the last one is evaluated
C5_Witness ==
    /\ call.op = "calculate_score"
    /\ Batch
    /\ call.task_type \in TASK_TYPES
    /\ result.kind = "raise"
    /\ result.exc = "ValueError"
    /\ result.msg \in FamilyMessages(REGRESSION) \cup FamilyMessages(BINARY_CLASSIFICATION)
    /\ Scored # {}
    /\ Len(result.trace) < Len(Metrics)

\* an exception that is no ValueError aborts the batch
C5_WitnessOtherKind ==
    /\ call.op = "calculate_score"
    /\ Batch
    /\ result.kind = "raise"
    /\ result.exc = "IndexError"
    /\ Len(result.trace) < Len(Metrics)

\* C6: without scoring_functions, calculate_score and calculate_loss raise
\* whatever the metric raises, also a ValueError that a batch would skip.
C6_SingleMetricPropagates ==
    (/\ call.op \in {"calculate_score", "calculate_loss"}
     /\ ~Batch
     /\ call.task_type \in TASK_TYPES
     /\ Alone(1).exc # "none")
    => /\ result.kind = "raise"
       /\ result.exc = Alone(1).exc
       /\ result.msg = Alone(1).msg

\* the single metric raises a message its task family's batch would skip
C6_Witness ==
    /\ call.op \in {"calculate_score", "calculate_loss"}
    /\ ~Batch
    /\ call.task_type \in TASK_TYPES
    /\ result.kind = "raise"
    /\ result.exc = "ValueError"
    /\ result.msg \in FamilyMessages(call.task_type)

\* C7: where _compute_scorer returns a score, calculate_metric returns
\* metric.sign times that score, on the prediction as it was passed and on
\* the array as the call left it.
C7_MetricIsSignTimesScore ==
    (/\ call.op = "calculate_metric"
     /\ call.task_type \in TASK_TYPES
     /\ Alone(1).exc = "none")
    => /\ result.kind = "scalar"
       /\ result.value = call.metric.sign * Alone(1).value
       /\ result.value =
              call.metric.sign * _compute_scorer(call.metric, prediction, solution,
                                                 call.task_type).value

\* a loss scorer with a score that is not 0
C7_Witness ==
    /\ call.op = "calculate_metric"
    /\ call.task_type \in TASK_TYPES
    /\ result.kind = "scalar"
    /\ call.metric.sign = -1
    /\ result.value # 0
\* C8 as stated: for a scorer with sign = -1, a prediction with a strictly
\* lower value of the wrapped function than another prediction, on the same
\* solution, has a strictly greater calculate_metric.
OtherMetric(B) == calculate_metric(call.metric, B, solution, call.task_type)

C8_LowerLossScoresHigher ==
    (/\ call.op = "calculate_metric"
     /\ result.kind = "scalar"
     /\ call.metric.sign = -1)
    => \A B \in Predictions :
          (/\ OtherMetric(B).kind = "scalar"
           /\ RawOf(result.trace[1]) < RawOf(OtherMetric(B).trace[1]))
          => result.value > OtherMetric(B).value

\* C8 as amended: calculate_metric returns the value of the wrapped function
\* itself, for either sign; so for a scorer with sign = -1 a prediction with a
\* strictly lower value of the wrapped function has a strictly lower
\* calculate_metric, and for sign = +1 a strictly lower one too.
C8_MetricIsRawValue ==
    (/\ call.op = "calculate_metric"
     /\ result.kind = "scalar")
    => /\ result.value = RawOf(result.trace[1])
       /\ \A B \in Predictions :
             (/\ OtherMetric(B).kind = "scalar"
              /\ RawOf(result.trace[1]) < RawOf(OtherMetric(B).trace[1]))
             => result.value < OtherMetric(B).value

\* a loss scorer and another prediction with a strictly greater loss
C8_Witness ==
    /\ call.op = "calculate_metric"
    /\ result.kind = "scalar"
    /\ call.metric.sign = -1
    /\ \E B \in Predictions :
          /\ OtherMetric(B).kind = "scalar"
          /\ RawOf(result.trace[1]) < RawOf(OtherMetric(B).trace[1])

\* C9 as stated: _compute_scorer and calculate_metric with a task_type outside
\* TASK_TYPES raise the unknown-task-type error and do not call the scorer.
C9_ComputeRejectsUnknownTask ==
    (/\ call.op \in {"_compute_scorer", "calculate_metric"}
     /\ call.task_type \notin TASK_TYPES)
    => /\ result.kind = "raise"
       /\ result.exc = "NotImplementedError"
       /\ result.trace = <<>>

\* C9 as amended: _compute_scorer and calculate_metric do not check task_type;
\* with one outside TASK_TYPES they call the scorer once, on the prediction as
\* it was passed (not sanitized), and never raise the unknown-task-type error.
C9_ComputeScoresUnknownTask ==
    (/\ call.op \in {"_compute_scorer", "calculate_metric"}
     /\ call.task_type \notin TASK_TYPES)
    => /\ result.exc # "NotImplementedError"
       /\ Len(result.trace) = 1
       /\ result.trace[1] =
              Evaluation(call.metric, Call(call.metric, solution, call.prediction, <<>>))
       /\ result.kind = "scalar" =>
              result.value = (IF call.op = "calculate_metric"
                              THEN call.metric.sign ELSE 1)
                             * result.trace[1].value

\* an unknown task type scored by calculate_metric, the wrapped function called
C9_Witness ==
    /\ call.op = "calculate_metric"
    /\ call.task_type \notin TASK_TYPES
    /\ result.kind = "scalar"
    /\ Len(result.trace[1].calls) = 1

\* C10 as stated: a direct call of a scorer leaves the caller's prediction
\* array as it was.
C10_ScorerLeavesPredictionUnchanged ==
    call.op = "__call__" => prediction = call.prediction
\* C11: make_scorer returns the Proba variant when needs_proba is set (also
\* with needs_threshold set), else the Threshold variant when needs_threshold
\* is set, else the Predict variant; the sign is +1 when greater_is_better and
\* -1 otherwise; name, score_func, optimum, worst_possible_result and kwargs
\* are stored as given; and every scorer of the registries has sign +1 or -1.
VariantByPrecedence ==
    IF call.needs_proba THEN "Proba"
    ELSE IF call.needs_threshold THEN "Threshold" ELSE "Predict"

C11_FactoryPrecedenceAndSign ==
    /\ call.op = "make_scorer" =>
          /\ result.scorer.variant = VariantByPrecedence
          /\ result.scorer.variant \in {"Predict", "Proba", "Threshold"}
          /\ result.scorer.sign = (IF call.greater_is_better THEN 1 ELSE -1)
          /\ result.scorer.name = call.name
          /\ result.scorer.score_func = call.score_func
          /\ result.scorer.optimum = call.optimum
          /\ result.scorer.worst_possible_result = call.worst_possible_result
          /\ result.scorer.kwargs = call.kwargs
    /\ \A n \in DOMAIN REGRESSION_METRICS : REGRESSION_METRICS[n].sign \in {1, -1}
    /\ \A n \in DOMAIN CLASSIFICATION_METRICS :
          CLASSIFICATION_METRICS[n].sign \in {1, -1}

\* both flags set, a loss function, keyword arguments given
C11_Witness ==
    /\ call.op = "make_scorer"
    /\ call.needs_proba
    /\ call.needs_threshold
    /\ ~call.greater_is_better
    /\ call.kwargs # <<>>
    /\ result.scorer.variant = "Proba"
\* C12: a Threshold scorer called (directly, or through _compute_scorer or
\* calculate_metric) on a y_true whose target type is neither binary nor
\* multilabel-indicator raises ValueError("<type> format is not supported"),
\* and the wrapped function is not invoked.
ThresholdSupported == {"binary", "multilabel-indicator"}

C12_ThresholdRejectsOtherTargets ==
    (/\ call.op \in {"__call__", "_compute_scorer", "calculate_metric"}
     /\ call.metric.variant = "Threshold"
     /\ type_of_target(solution) \notin ThresholdSupported)
    => /\ result.kind = "raise"
       /\ result.exc = "ValueError"
       /\ result.msg = type_of_target(solution) \o " format is not supported"
       /\ Len(result.trace) = 1
       /\ result.trace[1].calls = <<>>
       /\ prediction = call.prediction

\* roc_auc called directly on a multiclass ground truth
C12_Witness ==
    /\ call.op = "__call__"
    /\ call.metric.variant = "Threshold"
    /\ type_of_target(solution) = "multiclass"
    /\ result.msg = "multiclass format is not supported"

\* ... and on a continuous one
C12_WitnessContinuous ==
    /\ call.op = "__call__"
    /\ call.metric.variant = "Threshold"
    /\ type_of_target(solution) = "continuous"
    /\ result.kind = "raise"
\* C13: a Proba scorer invokes the wrapped function once, on y_true and on
\* y_pred as passed; with labels = [0, ..., n_cols - 1] exactly when the
\* wrapped function is log_loss and n_cols differs from the number of distinct
\* values of y_true, and without labels otherwise; with sample_weight exactly
\* when one was given; and returns sign times what the function returned, or
\* raises what it raised.
LabelsExpected ==
    IF /\ call.metric.score_func = "log_loss"
       /\ NCols(call.prediction) # Cardinality(Elems(solution))
    THEN [i \in 1..NCols(call.prediction) |-> (i - 1) * One]
    ELSE <<>>

C13_ProbaLabelsAndWeights ==
    (/\ call.op = "__call__"
     /\ call.metric.variant = "Proba")
    => /\ Len(result.trace) = 1
       /\ Len(result.trace[1].calls) = 1
       /\ result.trace[1].calls[1].func = call.metric.score_func
       /\ result.trace[1].calls[1].y_true = solution
       /\ result.trace[1].calls[1].y_pred = call.prediction
       /\ result.trace[1].calls[1].labels = LabelsExpected
       /\ result.trace[1].calls[1].sample_weight = call.sample_weight
       /\ result.trace[1].calls[1].kwargs = call.metric.kwargs
       /\ prediction = call.prediction
       /\ result.kind = "scalar" =>
              result.value = call.metric.sign * RawOf(result.trace[1])
       /\ result.kind = "raise" =>
              result.exc = score_func(call.metric.score_func, solution,
                                      call.prediction, call.sample_weight,
                                      LabelsExpected, call.metric.kwargs).exc

\* log_loss, two distinct labels in y_true, three probability columns, a
\* sample_weight: labels = [0, 1, 2] and the weights reach the function
C13_Witness ==
    /\ call.op = "__call__"
    /\ call.metric = log_loss
    /\ Cardinality(Elems(solution)) = 2
    /\ NCols(call.prediction) = 3
    /\ call.sample_weight # <<>>
    /\ result.trace[1].calls[1].labels = <<0, One, 2 * One>>
    /\ result.kind = "scalar"

\* a Proba scorer on another function, the column count differing: no labels
C13_WitnessOtherFunction ==
    /\ call.op = "__call__"
    /\ call.metric \in CustomScorers
    /\ NCols(call.prediction) # Cardinality(Elems(solution))
    /\ result.trace[1].calls[1].labels = <<>>

\* log_loss with as many columns as distinct labels: no labels
C13_WitnessMatching ==
    /\ call.op = "__call__"
    /\ call.metric = log_loss
    /\ NCols(call.prediction) = Cardinality(Elems(solution))
    /\ result.trace[1].calls[1].labels = <<>>
    /\ result.kind = "scalar"
\* a Predict scorer evaluated on a binary ground truth and a continuous 1-D
\* prediction that reaches the scorer as the caller passed it
RoundingCase ==
    /\ call.op \in {"__call__", "_compute_scorer", "calculate_metric"}
    /\ call.task_type \notin REGRESSION_TASKS
    /\ call.metric.variant = "Predict"
    /\ type_of_target(solution) = "binary"
    /\ type_of_target(call.prediction) = "continuous"
    /\ call.prediction.ndim = 1

\* the prediction the wrapped function was given, and the one the caller gave
Seen(i) == result.trace[1].calls[1].y_pred.data[i][1]
Given(i) == call.prediction.data[i][1]

\* C14 as stated: in the rounding case every element of the prediction the
\* wrapped function is given is 0 or 1.
C14_RoundedIntoZeroOne ==
    RoundingCase =>
        /\ Len(result.trace[1].calls) = 1
        /\ \A i \in 1..NRows(call.prediction) : Seen(i) \in {0, One}

\* C14 as amended: in the rounding case the wrapped function is given, for
\* each element, the nearest integer (a tie going to the even one); that is 0
\* or 1 exactly when the element lies in [-0.5, 1.5), and another integer
\* otherwise; the caller's array is left as it was.
C14_RoundedToNearestInteger ==
    RoundingCase =>
        /\ Len(result.trace[1].calls) = 1
        /\ result.trace[1].calls[1].y_pred.ndim = 1
        /\ NRows(result.trace[1].calls[1].y_pred) = NRows(call.prediction)
        /\ \A i \in 1..NRows(call.prediction) :
              /\ Seen(i) % One = 0
              /\ Abs(Seen(i) - Given(i)) <= Half
              /\ Abs(Seen(i) - Given(i)) = Half => (Seen(i) \div One) % 2 = 0
              /\ Seen(i) \in {0, One} <=> (-Half <= Given(i) /\ Given(i) < One + Half)
        /\ prediction = call.prediction

\* an element of 1.5 is rounded to 2, and another one to 0 or 1
C14_Witness ==
    /\ RoundingCase
    /\ \E i \in 1..NRows(call.prediction) : Given(i) = One + Half /\ Seen(i) = 2 * One
    /\ \E i \in 1..NRows(call.prediction) : Given(i) = 1 /\ Seen(i) = 0
    /\ result.kind = "scalar"

\* probabilities only, one of them 0.5: every element becomes 0 or 1
C14_WitnessProbabilities ==
    /\ RoundingCase
    /\ \E i \in 1..NRows(call.prediction) : Given(i) = Half /\ Seen(i) = 0
    /\ \A i \in 1..NRows(call.prediction) : Seen(i) \in {0, One}
\* C15 as stated: every score of the dict calculate_score returns is the score
\* _compute_scorer gives for that scorer alone on the prediction as it was
\* passed.
C15_BatchOrderIndependent ==
    (/\ call.op = "calculate_score"
     /\ result.kind = "dict")
    => \A i \in Scored :
          LastOfItsName(i) =>
              result.dict[result.trace[i].metric] = Alone(i).value
\* C16: a Predict scorer called directly normalizes y_pred by the first rule
\* that matches: (1) y_true binary and y_pred continuous and 1-D: rounded;
\* (2) y_pred 1-D or of one column, or y_true continuous: as passed; (3) y_true
\* binary or multiclass: the index of the first largest element of each row;
\* (4) y_true multilabel-indicator: 1 for an element above 0.5 and 0 otherwise;
\* (5) y_true continuous-multioutput: as passed; (6) otherwise ValueError with
\* the type of y_true as its message and no invocation of the wrapped
\* function.  The call returns sign times what the wrapped function returns on
\* the normalized array, or raises what it raises; and the ValueError of (6)
\* is raised exactly when y_pred is 2-D with more than one column and the
\* type of y_true is none of the five of rules (1) to (5).
PredictDirect == call.op = "__call__" /\ call.metric.variant = "Predict"

RuleOf ==
    IF /\ type_of_target(solution) = "binary"
       /\ type_of_target(call.prediction) = "continuous"
       /\ call.prediction.ndim = 1
    THEN 1
    ELSE IF \/ call.prediction.ndim = 1
            \/ NCols(call.prediction) = 1
            \/ type_of_target(solution) = "continuous"
    THEN 2
    ELSE IF type_of_target(solution) \in {"binary", "multiclass"} THEN 3
    ELSE IF type_of_target(solution) = "multilabel-indicator" THEN 4
    ELSE IF type_of_target(solution) = "continuous-multioutput" THEN 5
    ELSE 6

RecognizedTypes ==
    {"binary", "multiclass", "continuous", "multilabel-indicator",
     "continuous-multioutput"}

\* seen is call.prediction normalized by rule
NormalizedBy(rule, seen) ==
    CASE rule = 1 ->
           /\ seen.ndim = 1
           /\ NRows(seen) = NRows(call.prediction)
           /\ \A i \in 1..NRows(seen) :
                 /\ seen.data[i][1] % One = 0
                 /\ Abs(seen.data[i][1] - Given(i)) <= Half
                 /\ Abs(seen.data[i][1] - Given(i)) = Half =>
                        (seen.data[i][1] \div One) % 2 = 0
      [] rule \in {2, 5} -> seen = call.prediction
      [] rule = 3 ->
           /\ seen.ndim = 1
           /\ NRows(seen) = NRows(call.prediction)
           /\ \A i \in 1..NRows(seen) :
                 \E j \in 1..NCols(call.prediction) :
                    /\ seen.data[i] = <<(j - 1) * One>>
                    /\ \A k \in 1..NCols(call.prediction) :
                          call.prediction.data[i][k] <= call.prediction.data[i][j]
                    /\ \A k \in 1..(j - 1) :
                          call.prediction.data[i][k] < call.prediction.data[i][j]
      [] rule = 4 ->
           /\ seen.ndim = 2
           /\ NRows(seen) = NRows(call.prediction)
           /\ \A i \in 1..NRows(seen) :
                 /\ Len(seen.data[i]) = NCols(call.prediction)
                 /\ \A j \in 1..NCols(call.prediction) :
                       seen.data[i][j] =
                           (IF call.prediction.data[i][j] > Half THEN One ELSE 0)
      [] rule = 6 -> FALSE

\* the outcome of the wrapped function on y_pred as passed, for a call that
\* ended before invoking it
OnUnchanged ==
    score_func(call.metric.score_func, solution, call.prediction,
               call.sample_weight, <<>>, call.metric.kwargs)

InvalidTargetType ==
    /\ result.kind = "raise"
    /\ result.exc = "ValueError"
    /\ result.msg = type_of_target(solution)
    /\ result.trace[1].calls = <<>>

C16_PredictRuleOrder ==
    PredictDirect =>
        /\ RuleOf = 6 => InvalidTargetType
        /\ InvalidTargetType <=>
              /\ call.prediction.ndim = 2
              /\ NCols(call.prediction) > 1
              /\ type_of_target(solution) \notin RecognizedTypes
        /\ (RuleOf # 6 /\ result.trace[1].calls # <<>>) =>
              /\ Len(result.trace[1].calls) = 1
              /\ NormalizedBy(RuleOf, result.trace[1].calls[1].y_pred)
              /\ result.trace[1].calls[1].y_true = solution
              /\ result.trace[1].calls[1].sample_weight = call.sample_weight
              /\ result.kind = "scalar" =>
                     result.value = call.metric.sign * RawOf(result.trace[1])
              /\ result.kind = "raise" =>
                     /\ result.exc = result.trace[1].exc
                     /\ result.msg = result.trace[1].msg
        \* a y_pred holding an infinity, whose type cannot be told: the call
        \* ends as the wrapped function would end on y_pred as passed
        /\ (RuleOf # 6 /\ result.trace[1].calls = <<>>) =>
              /\ RuleOf = 2
              /\ ~IsFinite(call.prediction)
              /\ result.kind = "raise"
              /\ result.exc = OnUnchanged.exc
              /\ result.msg = OnUnchanged.msg

\* rule (6): a multiclass-multioutput ground truth and a probability matrix
C16_Witness ==
    /\ PredictDirect
    /\ RuleOf = 6
    /\ result.msg = "multiclass-multioutput"

\* rule (3), with a tie in a row resolved to the first column
C16_WitnessArgMax ==
    /\ PredictDirect
    /\ RuleOf = 3
    /\ \E i \in 1..NRows(call.prediction) :
          /\ call.prediction.data[i][1] = call.prediction.data[i][2]
          /\ result.trace[1].calls[1].y_pred.data[i] = <<0>>
    /\ result.kind = "scalar"

\* rule (2) taken before rule (3): binary ground truth, one column
C16_WitnessSingleColumn ==
    /\ PredictDirect
    /\ RuleOf = 2
    /\ type_of_target(solution) = "binary"
    /\ call.prediction.ndim = 2
    /\ result.trace[1].calls # <<>>

\* rules (4) and (5)
C16_WitnessThreshold ==
    /\ PredictDirect
    /\ RuleOf = 4
    /\ result.trace[1].calls[1].y_pred # call.prediction

C16_WitnessMultioutput ==
    /\ PredictDirect
    /\ RuleOf = 5
    /\ result.kind = "scalar"
\* C17: after every call, failed ones included, the registries hold the
\* entries they held after the import, every scorer with the attributes it
\* was built with; REGRESSION_METRICS and CLASSIFICATION_METRICS key each
\* scorer by its own name; and the scorers a call was given are still the
\* registered ones.
KeyedByName(registry) == \A n \in DOMAIN registry : registry[n].name = n

RegisteredStill(m) ==
    \/ m.name \in DOMAIN registries.REGRESSION_METRICS
         /\ registries.REGRESSION_METRICS[m.name] = m
    \/ m.name \in DOMAIN registries.CLASSIFICATION_METRICS
         /\ registries.CLASSIFICATION_METRICS[m.name] = m

C17_ScorersAndRegistriesUnchanged ==
    /\ registries = Imported
    /\ KeyedByName(registries.REGRESSION_METRICS)
    /\ KeyedByName(registries.CLASSIFICATION_METRICS)
    /\ DOMAIN registries.default_metric_for_task = TASK_TYPES
    /\ \A t \in TASK_TYPES :
          RegisteredStill(registries.default_metric_for_task[t])
    /\ call.op \in {"calculate_score", "calculate_loss", "calculate_metric",
                    "_compute_scorer"} =>
          \A i \in 1..Len(Metrics) : RegisteredStill(Metrics[i])

\* a batch call that failed, a scorer having written into the caller's array
C17_Witness ==
    /\ call.op = "calculate_loss"
    /\ Batch
    /\ result.kind = "raise"
    /\ prediction \notin Predictions

\* a direct scorer call that failed
C17_WitnessDirect ==
    /\ call.op = "__call__"
    /\ call.metric \in Registered
    /\ result.kind = "raise"
====
